---- MODULE Spec2Model ----
(***************************************************************************)
(* re-scraper: the scrape / extract / normalize / reconcile pipeline.      *)
(*                                                                         *)
(* The model follows the code of app/src: the page fetchers with their     *)
(* retry policy (scrapers/cian.py, scrapers/avito.py), the normalizer      *)
(* tails of fetch_cian / fetch_avito, upsert_listing and job_scrape_city   *)
(* (scheduler/jobs.py), and the two ways a run is started (api/main.py:    *)
(* the interval scheduler and POST /jobs/scrape/cian).                     *)
(*                                                                         *)
(* The store is a PostgreSQL database reached through one SQLAlchemy       *)
(* session per run (run_job): a run reads the committed rows overlaid with *)
(* its own pending writes, and its writes reach the committed tables at    *)
(* commit, or are discarded when the session closes without one.           *)
(***************************************************************************)
EXTENDS Integers, Sequences, FiniteSets, TLC

\* ------------------------------------------------------------------ values

\* Python's None in a numeric field (parsed numbers are never negative).
None == -1
\* Python's None in a text field.
NoneStr == "None"
\* Python's None in price_per_m2 (a present value is a reduced fraction).
NoneRatio == <<>>

\* Python truthiness of an optional number: None and 0 are falsy.
Truthy(x) == x # None /\ x # 0

RECURSIVE Gcd(_, _)
Gcd(a, b) == IF b = 0 THEN a ELSE Gcd(b, a % b)

\* price / area, the float quotient, kept exact as a reduced fraction <<n, d>>.
Quot(p, a) == <<p \div Gcd(p, a), a \div Gcd(p, a)>>

\* scrapers/cian.py _price_per_m2 and scrapers/avito.py _price_per_m2.
_price_per_m2(price, area) ==
    IF Truthy(price) /\ Truthy(area) /\ area > 0 THEN Quot(price, area) ELSE NoneRatio

\* dict.get(key): the value, or None when the key is gone (popped).
Get(it, key, dflt) == IF key \in DOMAIN it THEN it[key] ELSE dflt

\* dict.pop("_is_room", None); dict.pop("_rent_period", None).
PopTags(it) == [f \in (DOMAIN it) \ {"_is_room", "_rent_period"} |-> it[f]]

\* ------------------------------------------------------------------ bounds

\* Runs started over a behaviour (the interval trigger and the endpoint
\* together fire without bound).
MaxRuns == 2
\* Candidates handed to a normalizer taken alone (a page loop collects
\* without bound).
MaxLen == 3
\* The page counts configured for a page loop taken alone: 0..MaxPagesSet.
MaxPagesSet == 3

\* ------------------------------------------------------------------ program constants

\* tenacity stop_after_attempt(4), both fetchers.
STOP_AFTER_ATTEMPT == 4
\* "if len(items) < 5: break", both page loops.
MIN_CARDS == 5
\* Avito's price ceiling when no maximum is configured. The code's 10**12 is
\* beyond TLC's 32-bit integers; this stands for it, above every price served.
AVITO_NO_MAX == 2000000000

\* ------------------------------------------------------------------ candidates

\* A card as the extractors build it (cian _parse_cards, avito
\* _parse_from_jsonld): the listing fields plus the two provisional tags.
Card(source, external_id, url, title, address, rooms, area_m2, floor, floors_total, price_rub, rent_period, is_room) ==
    [source |-> source, external_id |-> external_id, title |-> title,
     address |-> address, rooms |-> rooms, area_m2 |-> area_m2, floor |-> floor,
     floors_total |-> floors_total, price_rub |-> price_rub,
     price_per_m2 |-> _price_per_m2(price_rub, area_m2), url |-> url,
     _is_room |-> is_room, _rent_period |-> rent_period]

\* The cards the marketplaces serve in this model.
K1 == Card("cian", "123", "u1", "t1", "a1", 1, 40, 2, 9, 50000, "monthly", FALSE)
K2 == Card("cian", "123", "u2", "t2", "a2", 2, 40, 3, 9, 55000, "monthly", FALSE)
K2b == Card("cian", "123", "u2b", "t2", "a2", 2, 40, 3, 9, 55000, "unknown", FALSE)
K3 == Card("cian", "123", "u3", "t3", NoneStr, None, 0, None, None, 60000, "unknown", FALSE)
K4 == Card("cian", "7", "u4", "t4", "a4", 0, 0, None, None, None, "monthly", FALSE)
K5 == Card("cian", "7", "u5", "t5", "a4", 0, 0, None, None, 30000, "monthly", TRUE)
K6 == Card("cian", "8", "u6", "t6", "a6", 1, 30, 1, 5, 2000, "daily", FALSE)
V1 == Card("avito", "123", "v1", "w1", NoneStr, 1, 40, 2, 9, 50000, "monthly", FALSE)
V2 == Card("avito", "123", "v2", "w2", NoneStr, 1, 40, 2, 9, 52000, "monthly", FALSE)
V3 == Card("avito", "9", "v3", "w3", NoneStr, None, 20, None, None, 20000, "monthly", TRUE)

\* The card lists a fetched page parses to, per source.
Pages(src) ==
    IF src = "cian"
    THEN {<<K1, K2>>, <<K4, K5, K3>>, <<K1, K1, K2, K2b, K6>>}
    ELSE {<<V1, V2, V3>>}

\* ------------------------------------------------------------------ settings

\* core/config.py Settings (the fields the pipeline reads) and the two
\* environment variables fetch_avito reads.
Settings == [cian_deal_type |-> "rent", cian_min_area_m2 |-> 0,
             cian_max_price_rub |-> None, cian_rent_long_only |-> TRUE,
             cian_exclude_rooms |-> TRUE, cian_max_pages |-> 2,
             AVITO_SEARCH_URL |-> TRUE, AVITO_MAX_PAGES |-> 1]

\* The deployments checked: CIAN alone over two pages (no AVITO_SEARCH_URL,
\* as when the variable is unset), and both sources over one page each.
Configs == {[Settings EXCEPT !.AVITO_SEARCH_URL = FALSE],
            [Settings EXCEPT !.cian_max_pages = 1]}

\* ------------------------------------------------------------------ page fetcher

\* What one HTTP GET gives: the client raises (a timeout), or a response
\* with its status, whether the body holds an anti-bot marker, whether the
\* body is shorter than the source's threshold, and the cards it parses to.
Response(exc, status, blocked, short, cards) ==
    [exc |-> exc, status |-> status, blocked |-> blocked, short |-> short,
     cards |-> cards]

Responses(source) ==
    {Response(FALSE, 200, FALSE, FALSE, p) : p \in Pages(source)}
    \cup {Response(FALSE, 403, FALSE, FALSE, <<>>),
          Response(FALSE, 200, TRUE, FALSE, <<>>),
          Response(FALSE, 200, FALSE, TRUE, <<>>),
          Response(TRUE, 0, FALSE, FALSE, <<>>)}

\* One call of the function under the retry decorator: what it raises
\* ("" when it returns) and the html it returns, held as its cards.
Returned(cards) == [raises |-> "", html |-> cards]
Raised(e) == [raises |-> e, html |-> <<>>]

_fetch_page_cian(resp) ==
    IF resp.exc THEN Raised("Exception")
    ELSE IF resp.blocked THEN Raised("FetchError")
    ELSE IF resp.status >= 400 THEN Raised("FetchError")
    ELSE IF resp.short THEN Raised("FetchError")
    ELSE Returned(resp.cards)

_fetch_page_avito(resp) ==
    IF resp.exc THEN Raised("Exception")
    ELSE IF resp.status >= 400 THEN Raised("FetchError")
    ELSE Returned(resp.cards)

_fetch_page(source, resp) ==
    IF source = "cian" THEN _fetch_page_cian(resp) ELSE _fetch_page_avito(resp)

\* Mutant: the retry stops one attempt early.
RetryDecisionEarly(attempt_number, raises) ==
    IF raises = "" THEN "return"
    ELSE IF raises = "FetchError" /\ attempt_number + 1 < STOP_AFTER_ATTEMPT THEN "retry"
    ELSE "reraise"

\* Mutant: every exception is retried.
RetryDecisionAny(attempt_number, raises) ==
    IF raises = "" THEN "return"
    ELSE IF attempt_number < STOP_AFTER_ATTEMPT THEN "retry"
    ELSE "reraise"

\* tenacity: retry=retry_if_exception_type(FetchError),
\* stop=stop_after_attempt(4), reraise=True. attempt_number counts from 1.
RetryDecision(attempt_number, raises) ==
    IF raises = "" THEN "return"
    ELSE IF raises = "FetchError" /\ attempt_number < STOP_AFTER_ATTEMPT THEN "retry"
    ELSE "reraise"

\* ------------------------------------------------------------------ normalizer

RECURSIVE DedupFrom(_, _)
DedupFrom(items, seen) ==
    IF items = <<>> THEN <<>>
    ELSE LET it == Head(items)
             key == <<Get(it, "external_id", NoneStr), Get(it, "url", NoneStr)>>
         IN IF key \in seen
            THEN DedupFrom(Tail(items), seen)
            ELSE <<it>> \o DedupFrom(Tail(items), seen \cup {key})

\* Mutant: of several candidates with one pair the last is the one kept.
DedupKeepsLast(items) ==
    LET Last(i) == \A j \in (i + 1)..Len(items) :
                      <<Get(items[j], "external_id", NoneStr), Get(items[j], "url", NoneStr)>>
                      # <<Get(items[i], "external_id", NoneStr), Get(items[i], "url", NoneStr)>>
        RECURSIVE From(_)
        From(i) == IF i > Len(items) THEN <<>>
                   ELSE (IF Last(i) THEN <<items[i]>> ELSE <<>>) \o From(i + 1)
    IN From(1)

\* dedup by (external_id, url), first occurrence kept.
Dedup(items) == DedupFrom(items, {})

\* it.get("_rent_period") != "daily"
NotDaily(it) == Get(it, "_rent_period", NoneStr) # "daily"

\* not it.get("_is_room"): a missing tag reads None, which is falsy.
NotRoom(it) == ~ Get(it, "_is_room", FALSE)

AreaOk(s, it) == it.area_m2 # None /\ it.area_m2 >= s.cian_min_area_m2

PriceOkCian(s, it) ==
    IF s.cian_max_price_rub # None
    THEN it.price_rub # None /\ it.price_rub <= s.cian_max_price_rub
    ELSE TRUE

PriceOkAvito(s, it) ==
    it.price_rub # None
    /\ it.price_rub <= (IF Truthy(s.cian_max_price_rub) THEN s.cian_max_price_rub
                        ELSE AVITO_NO_MAX)

PopAll(items) == [i \in 1..Len(items) |-> PopTags(items[i])]

\* "if settings.cian_deal_type == "rent" and settings.cian_rent_long_only:"
RentalFilterCian(s, items) ==
    IF s.cian_deal_type = "rent" /\ s.cian_rent_long_only
    THEN SelectSeq(items, NotDaily) ELSE items

\* "if settings.cian_rent_long_only:"
RentalFilterAvito(s, items) ==
    IF s.cian_rent_long_only THEN SelectSeq(items, NotDaily) ELSE items

\* "if settings.cian_exclude_rooms:", both sources.
RoomsFilter(s, items) ==
    IF s.cian_exclude_rooms THEN SelectSeq(items, NotRoom) ELSE items

NumericFilterCian(s, items) ==
    LET Keep(it) == AreaOk(s, it) /\ PriceOkCian(s, it) IN SelectSeq(items, Keep)

NumericFilterAvito(s, items) ==
    LET Keep(it) == AreaOk(s, it) /\ PriceOkAvito(s, it) IN SelectSeq(items, Keep)

\* One stage of a normalizer: what it was handed and what it left.
Stage(name, before, after) == [stage |-> name, before |-> before, after |-> after]

\* The stages of the tail of fetch_cian, in the order the code runs them.
StagesCian(s, out_items) ==
    LET deduped == Dedup(out_items)
        long == RentalFilterCian(s, deduped)
        popped == PopAll(long)
        rooms == RoomsFilter(s, popped)
        filtered == NumericFilterCian(s, rooms)
    IN <<Stage("dedup", out_items, deduped), Stage("rental", deduped, long),
         Stage("strip", long, popped), Stage("rooms", popped, rooms),
         Stage("numeric", rooms, filtered)>>

\* The stages of the tail of fetch_avito, in the order the code runs them.
StagesAvito(s, out_items) ==
    LET deduped == Dedup(out_items)
        long == RentalFilterAvito(s, deduped)
        rooms == RoomsFilter(s, long)
        filtered == NumericFilterAvito(s, rooms)
        popped == PopAll(filtered)
    IN <<Stage("dedup", out_items, deduped), Stage("rental", deduped, long),
         Stage("rooms", long, rooms), Stage("numeric", rooms, filtered),
         Stage("strip", filtered, popped)>>

Stages(s, source, out_items) ==
    IF source = "cian" THEN StagesCian(s, out_items) ELSE StagesAvito(s, out_items)

\* The tail of fetch_cian, from the dedup to the return.
NormalizeCian(s, out_items) ==
    LET st == StagesCian(s, out_items) IN st[Len(st)].after

\* The tail of fetch_avito, from the dedup to the return.
NormalizeAvito(s, out_items) ==
    LET st == StagesAvito(s, out_items) IN st[Len(st)].after

Normalize(s, source, out_items) ==
    IF source = "cian" THEN NormalizeCian(s, out_items) ELSE NormalizeAvito(s, out_items)

\* max(1, settings.cian_max_pages) and max(1, int(AVITO_MAX_PAGES)).
MaxPages(s, source) ==
    LET n == IF source = "cian" THEN s.cian_max_pages ELSE s.AVITO_MAX_PAGES
    IN IF n > 1 THEN n ELSE 1

\* ------------------------------------------------------------------ store

\* The columns a Listing(**payload) accepts (db/models.py Listing).
Columns == {"id", "source", "external_id", "title", "address", "rooms", "area_m2",
            "floor", "floors_total", "price_rub", "price_per_m2", "url",
            "phone_hash", "active", "created_at", "updated_at"}

\* select(Listing).where(Listing.source == src, Listing.external_id == ext);
\* a None external_id compares with IS NULL and so matches the rows without one.
Lookup(view, payload) ==
    {l \in view : /\ l.source = payload.source
                  /\ l.external_id = Get(payload, "external_id", NoneStr)}

\* Mutant: the quotient is taken the wrong way round.
NewListingInverted(id, payload) ==
    [id |-> id, source |-> payload.source,
     external_id |-> Get(payload, "external_id", NoneStr),
     title |-> Get(payload, "title", NoneStr),
     address |-> Get(payload, "address", NoneStr),
     rooms |-> Get(payload, "rooms", None),
     area_m2 |-> Get(payload, "area_m2", None),
     floor |-> Get(payload, "floor", None),
     floors_total |-> Get(payload, "floors_total", None),
     price_rub |-> Get(payload, "price_rub", None),
     price_per_m2 |->
        IF Truthy(Get(payload, "area_m2", None)) /\ Truthy(Get(payload, "price_rub", None))
        THEN Quot(payload.area_m2, payload.price_rub)
        ELSE Get(payload, "price_per_m2", NoneRatio),
     url |-> Get(payload, "url", NoneStr), active |-> TRUE]

\* Listing(**payload), then price_per_m2 when area and price are both truthy;
\* active takes the column default.
NewListing(id, payload) ==
    [id |-> id, source |-> payload.source,
     external_id |-> Get(payload, "external_id", NoneStr),
     title |-> Get(payload, "title", NoneStr),
     address |-> Get(payload, "address", NoneStr),
     rooms |-> Get(payload, "rooms", None),
     area_m2 |-> Get(payload, "area_m2", None),
     floor |-> Get(payload, "floor", None),
     floors_total |-> Get(payload, "floors_total", None),
     price_rub |-> Get(payload, "price_rub", None),
     price_per_m2 |->
        IF Truthy(Get(payload, "area_m2", None)) /\ Truthy(Get(payload, "price_rub", None))
        THEN Quot(payload.price_rub, payload.area_m2)
        ELSE Get(payload, "price_per_m2", NoneRatio),
     url |-> Get(payload, "url", NoneStr), active |-> TRUE]

\* Mutant: the stored area is never consulted.
AreaForUpdateNoStored(obj, payload) ==
    IF Truthy(Get(payload, "area_m2", None)) THEN payload.area_m2 ELSE 1

\* payload.get("area_m2") or obj.area_m2 or 1
AreaForUpdate(obj, payload) ==
    IF Truthy(Get(payload, "area_m2", None)) THEN payload.area_m2
    ELSE IF Truthy(obj.area_m2) THEN obj.area_m2
    ELSE 1

\* Mutant: the update also takes the candidate's title and url.
UpdatedListingAllFields(obj, payload) ==
    [obj EXCEPT !.price_rub = payload.price_rub,
                !.price_per_m2 = Quot(payload.price_rub, AreaForUpdate(obj, payload)),
                !.title = payload.title, !.url = payload.url]

\* The else branch's assignments to obj: price_rub and price_per_m2.
UpdatedListing(obj, payload) ==
    [obj EXCEPT !.price_rub = payload.price_rub,
                !.price_per_m2 = Quot(payload.price_rub, AreaForUpdate(obj, payload))]

\* Mutant: any present price counts as a change.
PriceChangedAlways(obj, payload) == Truthy(Get(payload, "price_rub", None))

\* new_price and new_price != obj.price_rub
PriceChanged(obj, payload) ==
    /\ Truthy(Get(payload, "price_rub", None))
    /\ payload.price_rub # obj.price_rub

\* Mutant: the snapshot is written without the price per square metre.
PriceSnapshotNoRatio(obj) ==
    [listing_id |-> obj.id, price_rub |-> obj.price_rub, price_per_m2 |-> NoneRatio]

\* PriceSnapshot(listing_id=obj.id, price_rub=obj.price_rub,
\*               price_per_m2=obj.price_per_m2)
PriceSnapshot(obj) ==
    [listing_id |-> obj.id, price_rub |-> obj.price_rub,
     price_per_m2 |-> obj.price_per_m2]

\* Mutant: the branch adds no snapshot.
NoSnapshots(obj) == <<>>

\* The snapshots the insert branch adds.
SnapshotsOnInsert(obj) == <<PriceSnapshot(obj)>>

\* The snapshots the update branch adds.
SnapshotsOnUpdate(obj) == <<PriceSnapshot(obj)>>

UpsertResult(raises, rows, snaps, log) ==
    [raises |-> raises, rows |-> rows, snaps |-> snaps, log |-> log]

\* upsert_listing against what the session sees: the exception it raises
\* ("" when none), the rows it adds or changes, the snapshots it adds, and
\* the outcome (the line it logs; "unchanged" when it logs none).
upsert_listing(view, id, payload) ==
    LET found == Lookup(view, payload)
    IN IF Cardinality(found) > 1
       THEN UpsertResult("MultipleResultsFound", {}, <<>>, "")
       ELSE IF found = {}
       THEN IF ~ (DOMAIN payload \subseteq Columns)
            THEN UpsertResult("TypeError", {}, <<>>, "")
            ELSE LET obj == NewListing(id, payload)
                 IN UpsertResult("", {obj}, SnapshotsOnInsert(obj), "inserted")
       ELSE LET obj == CHOOSE l \in found : TRUE
            IN IF PriceChanged(obj, payload)
               THEN LET upd == UpdatedListing(obj, payload)
                    IN UpsertResult("", {upd}, SnapshotsOnUpdate(upd), "updated")
               ELSE UpsertResult("", {}, <<>>, "unchanged")

\* ------------------------------------------------------------------ state

\* The two places a run is started from: the scheduler's job "scrape_city"
\* and the background task of POST /jobs/scrape/cian.
Runs == {"sched", "api"}
Sources == {"cian", "avito"}

VARIABLES
    cfg,        \* the settings, read once at import
    listings,   \* committed rows of table listings
    snapshots,  \* committed rows of table price_snapshots, in write order
    nextId,     \* the listings id sequence
    started,    \* runs started so far
    run,        \* per run: where job_scrape_city stands, and its locals
    sess,       \* per run: the session's pending rows and snapshots
    ledger,     \* history: committed price assignments, in write order
    audit,      \* history, per run: what its fetches returned and its upserts did
    lastRun,    \* history: what the sources returned to the last committed run
    call        \* a function taken alone: its arguments, then its result

vars == <<cfg, listings, snapshots, nextId, started, run, sess, ledger, audit, lastRun, call>>

Idle == [pc |-> "idle", src |-> "", page |-> 0, attempt |-> 0, out |-> <<>>,
         queue |-> <<>>, exc |-> ""]
AtFetch(source, p, a, o) == [Idle EXCEPT !.pc = "fetch", !.src = source, !.page = p,
                                         !.attempt = a, !.out = o]
AtUpsert(source, q) == [Idle EXCEPT !.pc = "upsert", !.src = source, !.queue = q]
AtCommit == [Idle EXCEPT !.pc = "commit"]
Done == [Idle EXCEPT !.pc = "done"]
Failed(e) == [Idle EXCEPT !.pc = "failed", !.exc = e]

NoSession == [rows |-> {}, snaps |-> <<>>, events |-> <<>>]
NoAudit == [returned |-> [s \in Sources |-> <<>>], upserted |-> <<>>,
            outcome |-> "", broke |-> [s \in Sources |-> ""],
            calls |-> [s \in Sources |-> 0], overlapped |-> FALSE]

Ids(rows) == {l.id : l \in rows}

\* What a session's queries see: the committed rows, its own pending ones over them.
ViewOf(committed, session) ==
    {l \in committed : l.id \notin Ids(session.rows)} \cup session.rows

View(r) == ViewOf(listings, sess[r])

InFlight == {r \in Runs : run[r].pc # "idle"}

\* No function is taken alone.
NoCall == [fn |-> "", pc |-> ""]

\* The pipeline before its first run, the store empty.
Idling ==
    /\ listings = {}
    /\ snapshots = <<>>
    /\ nextId = 1
    /\ started = 0
    /\ run = [r \in Runs |-> Idle]
    /\ sess = [r \in Runs |-> NoSession]
    /\ ledger = <<>>
    /\ audit = [r \in Runs |-> NoAudit]
    /\ lastRun = [s \in Sources |-> <<>>]

\* The pipeline variables stay as they are.
Aside == UNCHANGED <<cfg, listings, snapshots, nextId, started, run, sess, ledger, audit, lastRun>>

Init ==
    /\ cfg \in Configs
    /\ call = NoCall
    /\ listings = {}
    /\ snapshots = <<>>
    /\ nextId = 1
    /\ started = 0
    /\ run = [r \in Runs |-> Idle]
    /\ sess = [r \in Runs |-> NoSession]
    /\ ledger = <<>>
    /\ audit = [r \in Runs |-> NoAudit]
    /\ lastRun = [s \in Sources |-> <<>>]

\* ------------------------------------------------------------------ job_scrape_city

\* fetch_avito up to its first GET; without AVITO_SEARCH_URL it returns []
\* at once, the loop over its items is empty and the job stands at db.commit().
EnterAvito(s) == IF s.AVITO_SEARCH_URL THEN AtFetch("avito", 1, 1, <<>>) ELSE AtCommit

\* Where the job stands after the for loop over a source's items.
AfterLoop(s, source) == IF source = "cian" THEN EnterAvito(s) ELSE AtCommit

\* Where the job stands once fetch_<source> has returned items.
EnterLoop(s, source, items) ==
    IF items # <<>> THEN AtUpsert(source, items) ELSE AfterLoop(s, source)

\* Mutant: the page loop lets the exception through.
PageLoopPropagates(source, raises) == "raise"

\* The page loop's handler, "except Exception as e: ... break", both sources.
PageLoopOnRaise(source, raises) == "break"

\* Mutant: a short page does not end the loop.
EndOfResultsNever(items) == FALSE

\* "if len(items) < 5: break", both page loops.
EndOfResults(items) == Len(items) < MIN_CARDS

\* The page loop ends after this page: "if len(items) < 5: break", or the
\* range is exhausted.
LastPage(s, source, p, items) == EndOfResults(items) \/ p >= MaxPages(s, source)

\* scheduled_scrape_city / the background task: run_job opens a session and
\* job_scrape_city runs up to the first GET of fetch_cian.
Start(r) ==
    /\ run[r].pc = "idle"
    /\ started < MaxRuns
    /\ started' = started + 1
    /\ run' = [run EXCEPT ![r] = AtFetch("cian", 1, 1, <<>>)]
    /\ sess' = [sess EXCEPT ![r] = NoSession]
    /\ audit' = [q \in Runs |->
                    IF q = r THEN [NoAudit EXCEPT !.overlapped = (InFlight # {})]
                    ELSE IF q \in InFlight THEN [audit[q] EXCEPT !.overlapped = TRUE]
                    ELSE audit[q]]
    /\ UNCHANGED <<call, cfg, listings, snapshots, nextId, ledger, lastRun>>

\* The interval trigger fires job "scrape_city"; max_instances=1 lets it
\* start only while no instance of this job is running.
ScheduledScrape == Start("sched")

\* POST /jobs/scrape/cian: background_tasks.add_task(run_job, job_scrape_city, ...).
TriggerCian == Start("api")

\* One attempt of _fetch_page inside the page loop of fetch_<source>, and
\* what follows it without another await: a retry, the next page, or the
\* end of the loop with the normalizer tail and the return to the job.
FetchAttempt(r) ==
    /\ run[r].pc = "fetch"
    /\ \E resp \in Responses(run[r].src) :
          LET source == run[r].src
              p == run[r].page
              res == _fetch_page(source, resp)
              decision == RetryDecision(run[r].attempt, res.raises)
              called == [audit[r] EXCEPT !.calls[source] = p]
          IN IF decision = "retry"
             THEN /\ run' = [run EXCEPT ![r].attempt = @ + 1]
                  /\ audit' = [audit EXCEPT ![r] = called]
             ELSE IF decision = "return"
             THEN LET items == res.html
                      collected == run[r].out \o items
                  IN IF LastPage(cfg, source, p, items)
                     THEN LET ret == Normalize(cfg, source, collected)
                          IN /\ run' = [run EXCEPT ![r] = EnterLoop(cfg, source, ret)]
                             /\ audit' = [audit EXCEPT ![r] =
                                            [called EXCEPT !.returned[source] = ret]]
                     ELSE /\ run' = [run EXCEPT ![r] =
                                        AtFetch(source, p + 1, 1, collected)]
                          /\ audit' = [audit EXCEPT ![r] = called]
             ELSE LET br == res.raises
                  IN IF PageLoopOnRaise(source, res.raises) = "break"
                     THEN LET ret == Normalize(cfg, source, run[r].out)
                          IN /\ run' = [run EXCEPT ![r] = EnterLoop(cfg, source, ret)]
                             /\ audit' = [audit EXCEPT ![r] =
                                            [called EXCEPT !.returned[source] = ret,
                                                           !.broke[source] = br]]
                     ELSE /\ run' = [run EXCEPT ![r] = Failed(res.raises)]
                          /\ audit' = [audit EXCEPT ![r] =
                                         [called EXCEPT !.broke[source] = br]]
    /\ UNCHANGED <<call, cfg, listings, snapshots, nextId, started, sess, ledger, lastRun>>

\* The price assignments an upsert makes, for the ledger.
Events(res) ==
    IF res.log \in {"inserted", "updated"}
    THEN LET obj == CHOOSE l \in res.rows : TRUE
         IN <<[listing_id |-> obj.id, price_rub |-> obj.price_rub, kind |-> res.log]>>
    ELSE <<>>

\* "await upsert_listing(db, item)" for the next item of the for loop.
Upsert(r) ==
    /\ run[r].pc = "upsert"
    /\ LET payload == Head(run[r].queue)
           rest == Tail(run[r].queue)
           res == upsert_listing(View(r), nextId, payload)
       IN IF res.raises # ""
          THEN /\ run' = [run EXCEPT ![r] = Failed(res.raises)]
               /\ audit' = [audit EXCEPT ![r].upserted = Append(@, payload),
                                         ![r].outcome = "raised"]
               /\ UNCHANGED <<sess, nextId>>
          ELSE /\ sess' = [sess EXCEPT ![r] =
                             [rows |-> {l \in @.rows : l.id \notin Ids(res.rows)}
                                        \cup res.rows,
                              snaps |-> @.snaps \o res.snaps,
                              events |-> @.events \o Events(res)]]
               /\ nextId' = IF res.log = "inserted" THEN nextId + 1 ELSE nextId
               /\ run' = [run EXCEPT ![r] =
                            IF rest # <<>> THEN AtUpsert(run[r].src, rest)
                            ELSE AfterLoop(cfg, run[r].src)]
               /\ audit' = [audit EXCEPT ![r].upserted = Append(@, payload),
                                         ![r].outcome = res.log]
    /\ UNCHANGED <<call, cfg, listings, snapshots, started, ledger, lastRun>>

\* "await db.commit()": the session's pending writes reach the tables.
Commit(r) ==
    /\ run[r].pc = "commit"
    /\ listings' = View(r)
    /\ snapshots' = snapshots \o sess[r].snaps
    /\ ledger' = ledger \o sess[r].events
    /\ sess' = [sess EXCEPT ![r] = NoSession]
    /\ run' = [run EXCEPT ![r] = Done]
    /\ lastRun' = audit[r].returned
    /\ UNCHANGED <<call, cfg, nextId, started, audit>>

\* "await db.commit()" raises (the connection or the transaction failed):
\* nothing of the transaction reaches the tables, and the exception leaves
\* job_scrape_city.
CommitFails(r) ==
    /\ run[r].pc = "commit"
    /\ run' = [run EXCEPT ![r] = Failed("StoreError")]
    /\ UNCHANGED <<call, cfg, listings, snapshots, nextId, started, sess, ledger, audit, lastRun>>

\* "await upsert_listing(db, item)" raises out of the store (the select or
\* the flush failed on the connection): the exception leaves job_scrape_city.
UpsertFails(r) ==
    /\ run[r].pc = "upsert"
    /\ run' = [run EXCEPT ![r] = Failed("StoreError")]
    /\ audit' = [audit EXCEPT ![r].upserted = Append(@, Head(run[r].queue)),
                              ![r].outcome = "raised"]
    /\ UNCHANGED <<call, cfg, listings, snapshots, nextId, started, sess, ledger, lastRun>>

\* Mutant: leaving the session flushes and commits what is pending.
SessionExitCommits(committed, session) ==
    [rows |-> ViewOf(committed.rows, session),
     snaps |-> committed.snaps \o session.snaps,
     events |-> committed.events \o session.events]

\* What the tables hold once "async with SessionLocal() as db" is left: the
\* session is closed without a commit, what it held pending is rolled back.
SessionExit(committed, session) == committed

\* run_job leaves "async with SessionLocal() as db": the session closes,
\* pending writes of a run that raised are rolled back.
Close(r) ==
    /\ run[r].pc \in {"done", "failed"}
    /\ LET left == SessionExit([rows |-> listings, snaps |-> snapshots,
                                events |-> ledger], sess[r])
       IN /\ listings' = left.rows
          /\ snapshots' = left.snaps
          /\ ledger' = left.events
    /\ run' = [run EXCEPT ![r] = Idle]
    /\ sess' = [sess EXCEPT ![r] = NoSession]
    /\ audit' = [audit EXCEPT ![r] = NoAudit]
    /\ UNCHANGED <<call, cfg, nextId, started, lastRun>>

Next ==
    \/ ScheduledScrape
    \/ TriggerCian
    \/ \E r \in Runs : FetchAttempt(r)
    \/ \E r \in Runs : Upsert(r)
    \/ \E r \in Runs : Commit(r)
    \/ \E r \in Runs : Close(r)

Spec == Init /\ [][Next]_vars

\* The pipeline over a store whose calls may fail.
NextStoreError ==
    \/ Next
    \/ \E r \in Runs : UpsertFails(r)
    \/ \E r \in Runs : CommitFails(r)

SpecStoreError == Init /\ [][NextStoreError]_vars

\* ------------------------------------------------------------------ the normalizers taken alone

\* Candidates as the CIAN extractor may tag them: two with one
\* (external_id, url) pair and different fields, a daily one, a room, one
\* without external_id, one without price, one without area.
N1 == Card("cian", "1", "n1", "t1", "a1", 1, 40, 2, 9, 50000, "monthly", FALSE)
N1b == Card("cian", "1", "n1", "t1b", "a1", 1, 40, 2, 9, 45000, "unknown", FALSE)
N2 == Card("cian", "2", "n2", "t2", "a2", 1, 30, 1, 5, 2000, "daily", FALSE)
N3 == Card("cian", "3", "n3", "t3", "a3", None, 12, None, None, 15000, "monthly", TRUE)
N4 == Card("cian", NoneStr, "n4", "t4", "a4", 2, 40, 3, 9, 30000, "unknown", FALSE)
N5 == Card("cian", "5", "n5", "t5", "a5", 2, 40, 3, 9, None, "monthly", FALSE)
N6 == Card("cian", "6", "n6", "t6", "a6", 2, None, 3, 9, 10000, "monthly", FALSE)

\* Candidates as the Avito extractor may tag them (_rent_period is always
\* "monthly" there; price and area as parsed).
A1 == Card("avito", "1", "o1", "w1", NoneStr, 1, 40, 2, 9, 50000, "monthly", FALSE)
A1b == Card("avito", "1", "o1", "w1b", NoneStr, 1, 40, 2, 9, 45000, "monthly", FALSE)
A3 == Card("avito", "3", "o3", "w3", NoneStr, None, 12, None, None, 15000, "monthly", TRUE)
A5 == Card("avito", "5", "o5", "w5", NoneStr, 2, 40, 3, 9, None, "monthly", FALSE)
A6 == Card("avito", "6", "o6", "w6", NoneStr, 2, None, 3, 9, 10000, "monthly", FALSE)

Pool(source) ==
    IF source = "cian" THEN {N1, N1b, N2, N3, N4, N5, N6} ELSE {A1, A1b, A3, A5, A6}

SeqsUpTo(S, n) == UNION {[1..k -> S] : k \in 0..n}

\* The settings a normalizer is taken under: either deal type, the two
\* filters on and off, a minimum area, and a maximum price unset, 0 and set.
NormalizerConfigs ==
    {[Settings EXCEPT !.cian_deal_type = d, !.cian_rent_long_only = l,
                      !.cian_exclude_rooms = x, !.cian_min_area_m2 = a,
                      !.cian_max_price_rub = m] :
        d \in {"rent", "sale"}, l \in BOOLEAN, x \in BOOLEAN, a \in {0, 35},
        m \in {None, 0, 40000}}

\* fetch_<source> stands after its page loop with the candidates collected.
InitNormalizer ==
    /\ cfg \in NormalizerConfigs
    /\ \E source \in Sources : \E items \in SeqsUpTo(Pool(source), MaxLen) :
          call = [fn |-> "normalize", pc |-> "called", source |-> source,
                  items |-> items, stages |-> <<>>, ret |-> <<>>]
    /\ Idling

\* The tail of fetch_<source> runs and returns.
NormalizerReturns(source) ==
    /\ call.fn = "normalize" /\ call.pc = "called" /\ call.source = source
    /\ call' = [call EXCEPT !.pc = "returned",
                            !.stages = Stages(cfg, source, call.items),
                            !.ret = Normalize(cfg, source, call.items)]
    /\ Aside

NextNormalizer == NormalizerReturns("cian") \/ NormalizerReturns("avito")

SpecNormalizer == InitNormalizer /\ [][NextNormalizer]_vars

\* ------------------------------------------------------------------ the extractors taken alone

\* A text is held as the set of the words it contains; a marker occurs in
\* it when the marker is one of them. The markers are transliterated.
\* cian.py _detect_rent_period: daily_markers and monthly_markers.
DailyMarkers == {"posutoch", "v sutki", "za sutki", "/sut", "sutki", "v den", "/den", "za den"}
MonthlyMarkers == {"v mesyats", "v mes", "/mes", "mes.", "mesyats"}

\* cian.py _detect_rent_period(text).
_detect_rent_period(text) ==
    IF text \cap DailyMarkers # {} THEN "daily"
    ELSE IF text \cap MonthlyMarkers # {} THEN "monthly"
    ELSE "unknown"

\* A url is held as its path segments, <<>> for an absent one; Digits are
\* the segments made of digits only.
Digits == {"7"}
Urls == {<<>>, <<"rent", "7">>, <<"rent", "x7">>, <<"7", "rent">>}

\* cian.py _parse_cards: re.search(r"/(\d+)/?$", url), the last segment when
\* it is made of digits.
ExternalIdCian(url) ==
    IF url # <<>> /\ url[Len(url)] \in Digits THEN url[Len(url)] ELSE NoneStr

\* avito.py _extract_external_id: re.search(r"/(\d+)(?:\?|$|/)", url), the
\* first segment made of digits.
_extract_external_id(url) ==
    IF \E i \in 1..Len(url) : url[i] \in Digits
    THEN url[CHOOSE i \in 1..Len(url) :
                /\ url[i] \in Digits
                /\ \A j \in 1..(i - 1) : url[j] \notin Digits]
    ELSE NoneStr

\* The words of the texts in this model: daily and monthly markers and a
\* word that is neither.
TextWords == {"posutoch", "sutki", "/den", "/mes", "mesyats", "kvartira"}

\* The forms re.search(r"\bkomnat[aey]\b", t) finds: the room word standing alone.
StandaloneRoom == {"komnata", "komnaty", "komnate"}

\* cian.py _is_room_listing, t the words of title and summary.
_is_room_listing_cian(t) ==
    IF "kvartira" \in t \/ "studiya" \in t THEN FALSE
    ELSE IF t \cap StandaloneRoom # {} THEN TRUE
    ELSE IF t \cap {"komnata v", "komn. v", "v podseleni"} # {} THEN TRUE
    ELSE IF t \cap {"sdayotsya komnata", "sdaetsya komnata"} # {} THEN TRUE
    ELSE FALSE

\* avito.py _is_room_listing, t the words of the offer's name.
_is_room_listing_avito(t) ==
    IF "kvartira" \in t \/ "studiya" \in t THEN FALSE
    ELSE IF t \cap {"komnata v", "komn. v", "v podseleni", "podselenie"} # {} THEN TRUE
    ELSE IF t \cap StandaloneRoom # {} /\ "komnatn" \notin t THEN TRUE
    ELSE FALSE

\* The words of title and summary in this model: the apartment keyword, the
\* room word alone and in "komnata v", the two shared-occupancy wordings and
\* the adjective stem of "2-komnatnaya". A text with "komnata v" has the
\* room word standing alone in it.
RoomWords == {"kvartira", "komnata", "komnata v", "v podseleni", "podselenie", "komnatn"}
RoomTexts == {t \in SUBSET RoomWords : "komnata v" \in t => "komnata" \in t}

\* What an extractor reads of one card node (CIAN) or one JSON-LD offer
\* (Avito): its link, its title, the text the rental period is decided
\* over, and the words of title and summary the room tag is decided over.
RawCards ==
    {[url |-> u, title |-> t, text |-> x, summary |-> y] :
        u \in Urls, t \in {"t", NoneStr}, x \in SUBSET TextWords, y \in RoomTexts}

\* cian.py _parse_cards, the dict built for one card node.
CardOfCian(raw) ==
    [source |-> "cian", external_id |-> ExternalIdCian(raw.url), title |-> raw.title,
     url |-> raw.url, _is_room |-> _is_room_listing_cian(raw.summary),
     _rent_period |-> _detect_rent_period(raw.text)]

\* avito.py _parse_from_jsonld, the dict built for one offer.
CardOfAvito(off) ==
    [source |-> "avito", external_id |-> _extract_external_id(off.url),
     title |-> off.title, url |-> off.url, _rent_period |-> "monthly",
     _is_room |-> _is_room_listing_avito(off.summary)]

\* cian.py _parse_cards: every node gives a card; "[c for c in cards if c.get("url")]".
_parse_cards(raws) ==
    LET cards == [i \in 1..Len(raws) |-> CardOfCian(raws[i])]
        HasUrl(c) == c.url # <<>>
    IN SelectSeq(cards, HasUrl)

\* avito.py _parse_from_jsonld: "if not url or not title: continue".
_parse_from_jsonld(offers) ==
    LET Usable(off) == off.url # <<>> /\ off.title # NoneStr
        out == SelectSeq(offers, Usable)
    IN [i \in 1..Len(out) |-> CardOfAvito(out[i])]

Extract(source, raws) ==
    IF source = "cian" THEN _parse_cards(raws) ELSE _parse_from_jsonld(raws)

\* An extractor is handed a page with one card.
InitExtractor ==
    /\ cfg = Settings
    /\ \E source \in Sources : \E raw \in RawCards :
          call = [fn |-> "extract", pc |-> "called", source |-> source,
                  items |-> <<raw>>, ret |-> <<>>]
    /\ Idling

\* _parse_cards(html) / _parse_from_jsonld(html) returns.
ExtractorReturns(source) ==
    /\ call.fn = "extract" /\ call.pc = "called" /\ call.source = source
    /\ call' = [call EXCEPT !.pc = "returned", !.ret = Extract(source, call.items)]
    /\ Aside

NextExtractor == ExtractorReturns("cian") \/ ExtractorReturns("avito")

SpecExtractor == InitExtractor /\ [][NextExtractor]_vars

\* ------------------------------------------------------------------ the page fetchers taken alone

\* ANTI_BOT_MARKERS of scrapers/cian.py and of scrapers/avito.py, as
\* written there (transliterated, the case kept).
ANTI_BOT_MARKERS(source) ==
    IF source = "cian"
    THEN {"vy robot", "podtverdite, chto vy ne robot", "captcha",
          "podozritelnaya aktivnost", "Too Many Requests", "Dostup vremenno ogranichen"}
    ELSE {"podozritelnaya aktivnost", "vy robot", "captcha", "Dostup ogranichen",
          "Pohozhe, vy slishkom chasto", "Pozhaluysta, podozhdite"}

\* str.lower() over the phrases of this model.
Lower(w) ==
    CASE w = "CAPTCHA" -> "captcha"
      [] w = "Too Many Requests" -> "too many requests"
      [] w = "Dostup vremenno ogranichen" -> "dostup vremenno ogranichen"
      [] w = "Dostup ogranichen" -> "dostup ogranichen"
      [] w = "Pohozhe, vy slishkom chasto" -> "pohozhe, vy slishkom chasto"
      [] w = "Pozhaluysta, podozhdite" -> "pozhaluysta, podozhdite"
      [] OTHER -> w

\* "low = r.text.lower(); any(m in low for m in ANTI_BOT_MARKERS)", a body
\* held as the set of the phrases it contains.
AntiBotDetected(source, body) ==
    \E m \in ANTI_BOT_MARKERS(source) : m \in {Lower(w) : w \in body}

\* The phrases of the bodies in this model: markers of both lists, of one
\* list only, in another case, and a phrase that is no marker.
BodyPhrases == {"vy robot", "captcha", "CAPTCHA", "Too Many Requests",
                "Dostup ogranichen", "kvartira"}

\* What one GET gives, its body held by its phrases.
Bodies ==
    {[exc |-> e, status |-> st, body |-> b, short |-> sh] :
        e \in BOOLEAN, st \in {200, 403}, b \in SUBSET BodyPhrases, sh \in BOOLEAN}

\* _fetch_page over a response with that body.
FetchOf(source, r) ==
    _fetch_page(source, Response(r.exc, r.status, AntiBotDetected(source, r.body),
                                 r.short, <<K1>>))

\* _fetch_page is entered for its attempt-th attempt and the GET answers.
InitFetcher ==
    /\ cfg = Settings
    /\ \E source \in Sources : \E n \in 1..STOP_AFTER_ATTEMPT : \E r \in Bodies :
          call = [fn |-> "fetch", pc |-> "called", source |-> source, attempt |-> n,
                  resp |-> r, ret |-> Returned(<<>>), decision |-> ""]
    /\ Idling

\* The attempt ends and the retry policy decides.
FetchReturns(source) ==
    /\ call.fn = "fetch" /\ call.pc = "called" /\ call.source = source
    /\ LET res == FetchOf(source, call.resp)
       IN call' = [call EXCEPT !.pc = "returned", !.ret = res,
                               !.decision = RetryDecision(call.attempt, res.raises)]
    /\ Aside

NextFetcher == FetchReturns("cian") \/ FetchReturns("avito")

SpecFetcher == InitFetcher /\ [][NextFetcher]_vars

\* ------------------------------------------------------------------ the reconciliation taken alone

\* A second CIAN candidate without external_id, another listing than N4.
N4b == Card("cian", NoneStr, "n4b", "t4b", "a4b", 1, 35, 1, 9, 28000, "monthly", FALSE)

\* The listing of N1 seen again under other links, its price parsed as 0,
\* not parsed at all, and changed.
N1z == Card("cian", "1", "n1z", "t1", "a1", 1, 40, 2, 9, 0, "monthly", FALSE)
N1n == Card("cian", "1", "n1n", "t1", "a1", 1, 40, 2, 9, None, "monthly", FALSE)
N1c == Card("cian", "1", "n1c", "t1", "a1", 1, 40, 2, 9, 48000, "monthly", FALSE)

\* The candidates a page handed to the reconciliation may hold.
ReconcilePool == Pool("cian") \cup {N4b, N1z, N1n, N1c}

\* CIAN alone, the settings otherwise as shipped.
CianOnly == [Settings EXCEPT !.AVITO_SEARCH_URL = FALSE]

\* A scheduled run over an empty store at the moment fetch_cian has
\* returned: its page loop had collected the candidates of one page.
InitReconcile ==
    /\ cfg = CianOnly
    /\ call = NoCall
    /\ listings = {} /\ snapshots = <<>> /\ nextId = 1 /\ ledger = <<>>
    /\ started = 1
    /\ sess = [r \in Runs |-> NoSession]
    /\ lastRun = [s \in Sources |-> <<>>]
    /\ \E items \in SeqsUpTo(ReconcilePool, MaxLen) :
          LET ret == Normalize(cfg, "cian", items)
          IN /\ run = [r \in Runs |-> IF r = "sched" THEN EnterLoop(cfg, "cian", ret)
                                                     ELSE Idle]
             /\ audit = [r \in Runs |->
                            IF r = "sched"
                            THEN [NoAudit EXCEPT !.returned["cian"] = ret, !.calls["cian"] = 1]
                            ELSE NoAudit]

\* The for loop over the returned candidates, the commit and the end of the run.
NextReconcile ==
    \/ \E r \in Runs : Upsert(r)
    \/ \E r \in Runs : Commit(r)
    \/ \E r \in Runs : Close(r)

SpecReconcile == InitReconcile /\ [][NextReconcile]_vars

\* ------------------------------------------------------------------ the page loops taken alone

\* A full page of each source (five cards) beside the pages of Pages.
FullPage(source) ==
    IF source = "cian" THEN <<K1, K1, K2, K2b, K6>> ELSE <<V1, V2, V3, V1, V2>>

\* What a GET of the page loop may answer.
LoopResponses(source) ==
    Responses(source) \cup {Response(FALSE, 200, FALSE, FALSE, FullPage(source)),
                            Response(FALSE, 200, FALSE, FALSE, <<>>)}

\* The page counts configured, for both sources.
LoopConfigs ==
    {[Settings EXCEPT !.cian_max_pages = n, !.AVITO_MAX_PAGES = n] : n \in 0..MaxPagesSet}

\* What the loop did, in order: a page fetched (with the number of cards it
\* gave, None when _fetch_page raised) or a rate-limit sleep.
Fetch(p, got) == [op |-> "fetch", page |-> p, got |-> got]
Sleep == [op |-> "sleep", page |-> 0, got |-> None]

\* fetch_<source> stands before its page loop, "for p in range(1, max_pages + 1)".
\* tries holds what each attempt at the current page raised ("" when it
\* returned), out the candidates collected.
InitLoop ==
    /\ cfg \in LoopConfigs
    /\ \E source \in Sources :
          call = [fn |-> "loop", pc |-> "fetch", source |-> source, page |-> 1,
                  attempt |-> 1, events |-> <<>>, tries |-> <<>>, out |-> <<>>]
    /\ Idling

\* One attempt of "html = await _fetch_page(client, url)" in the loop, and
\* what follows it up to the next await: a retry, the break on an exception
\* or on a short page, or the way to the sleep.
LoopAttempt(source) ==
    /\ call.fn = "loop" /\ call.pc = "fetch" /\ call.source = source
    /\ \E resp \in LoopResponses(source) :
          LET res == _fetch_page(source, resp)
              decision == RetryDecision(call.attempt, res.raises)
              tried == Append(call.tries, res.raises)
          IN IF decision = "retry"
             THEN call' = [call EXCEPT !.attempt = @ + 1, !.tries = tried]
             ELSE IF decision = "return"
             THEN LET items == res.html
                      done == Append(call.events, Fetch(call.page, Len(items)))
                  IN IF EndOfResults(items)
                     THEN call' = [call EXCEPT !.pc = "returned", !.events = done,
                                               !.tries = tried, !.out = @ \o items]
                     ELSE call' = [call EXCEPT !.pc = "sleep", !.events = done,
                                               !.tries = tried, !.out = @ \o items]
             ELSE IF PageLoopOnRaise(source, res.raises) = "break"
             THEN call' = [call EXCEPT !.pc = "returned", !.tries = tried,
                                       !.events = Append(@, Fetch(call.page, None))]
             ELSE call' = [call EXCEPT !.pc = "raised", !.tries = tried,
                                       !.events = Append(@, Fetch(call.page, None))]
    /\ Aside

\* "await asyncio.sleep(rate_sleep)", then the next page of the range or
\* the end of the loop.
LoopSleep(source) ==
    /\ call.fn = "loop" /\ call.pc = "sleep" /\ call.source = source
    /\ call' = IF call.page < MaxPages(cfg, source)
               THEN [call EXCEPT !.pc = "fetch", !.page = @ + 1, !.attempt = 1,
                                 !.tries = <<>>, !.events = Append(@, Sleep)]
               ELSE [call EXCEPT !.pc = "returned", !.events = Append(@, Sleep)]
    /\ Aside

NextLoop ==
    \/ LoopAttempt("cian")
    \/ LoopAttempt("avito")
    \/ LoopSleep("cian")
    \/ LoopSleep("avito")

SpecLoop == InitLoop /\ [][NextLoop]_vars

\* ------------------------------------------------------------------ reading the history

\* The snapshots of one listing, in write order.
SnapshotsOf(snaps, id) ==
    LET Mine(x) == x.listing_id = id IN SelectSeq(snaps, Mine)

\* The price assignments to one listing, in write order.
AssignmentsOf(events, id) ==
    LET Mine(x) == x.listing_id = id IN SelectSeq(events, Mine)

PricesOf(seq) == [i \in 1..Len(seq) |-> seq[i].price_rub]

\* N: the price changes applied to a listing after its insertion.
Changes(events) ==
    LET Upd(x) == x.kind = "updated" IN Len(SelectSeq(events, Upd))

\* Run r takes an Upsert step.
UpsertStep(r) ==
    /\ run[r].pc = "upsert"
    /\ Len(audit'[r].upserted) = Len(audit[r].upserted) + 1

\* The payload and the stored rows the next upsert_listing of run r meets.
Payload(r) == Head(run[r].queue)
Stored(r) == Lookup(View(r), Payload(r))

\* The fields a candidate hands to the store, price_per_m2 aside.
CandidateFields == {"source", "external_id", "title", "address", "rooms", "area_m2",
                    "floor", "floors_total", "price_rub", "url"}

\* ------------------------------------------------------------------ claims

\* C1: at any time at most one pipeline run (job_scrape_city) is in flight,
\* whether started by the interval scheduler or by POST /jobs/scrape/cian.
C1_SingleInFlight == Cardinality(InFlight) <= 1

\* C2: in every reachable state of the store there is at most one stored
\* Listing row per (source, external_id).
C2_OneRowPerKey ==
    \A a, b \in listings :
        (a.source = b.source /\ a.external_id = b.external_id) => a = b

\* A listing's snapshots and its price assignments agree: N + 1 snapshots
\* for N changes, the first assignment the insertion, the same prices in the
\* same order.
Auditable(snaps, events, id) ==
    LET sn == SnapshotsOf(snaps, id)
        ev == AssignmentsOf(events, id)
    IN /\ Len(sn) = Changes(ev) + 1
       /\ PricesOf(sn) = PricesOf(ev)
       /\ ev[1].kind = "inserted"

\* C3: every stored Listing has exactly N + 1 PriceSnapshot rows, N being the
\* number of price changes applied to it, and the snapshots in write order
\* carry exactly the sequence of prices the listing has held; this holds of
\* the committed rows and of the rows each run's session sees.
C3_PriceHistoryAuditable ==
    /\ \A l \in listings : Auditable(snapshots, ledger, l.id)
    /\ \A r \in Runs : \A l \in View(r) :
          Auditable(snapshots \o sess[r].snaps, ledger \o sess[r].events, l.id)

\* C3 witness: a committed listing that has held 50000, 55000 and 60000 and
\* has the three snapshots.
C3_Witness ==
    \E l \in listings :
        /\ l.price_rub = 60000
        /\ PricesOf(SnapshotsOf(snapshots, l.id)) = <<50000, 55000, 60000>>

\* C4: upsert_listing of a candidate whose price_rub equals the price of the
\* stored listing with its (source, external_id) is a no-op: the outcome is
\* unchanged, no row and no snapshot is added or modified, and the same
\* candidate reconciled again is unchanged again.
C4_SamePriceIsNoOp ==
    [][\A r \in Runs :
          (/\ UpsertStep(r)
           /\ \E obj \in Stored(r) :
                 Stored(r) = {obj} /\ obj.price_rub = Payload(r).price_rub)
          => /\ audit'[r].outcome = "unchanged"
             /\ sess'[r] = sess[r]
             /\ listings' = listings /\ snapshots' = snapshots
             /\ upsert_listing(ViewOf(listings', sess'[r]), nextId', Payload(r)).log
                    = "unchanged"]_vars

\* C4 witness: after the insert at 50000 and the update to 55000, the
\* candidate at 55000 came out unchanged and the snapshot count is still 2.
C4_Witness ==
    \E r \in Runs :
        /\ audit[r].outcome = "unchanged"
        /\ Len(audit[r].upserted) > 0
        /\ LET p == audit[r].upserted[Len(audit[r].upserted)]
           IN /\ p.price_rub = 55000
              /\ \E l \in Lookup(View(r), p) :
                    PricesOf(SnapshotsOf(snapshots \o sess[r].snaps, l.id))
                        = <<50000, 55000>>

\* C5: a run of job_scrape_city to which the sources return the same
\* candidate sequences as to the run before it leaves every stored Listing
\* unchanged and adds no PriceSnapshot.
C5_SecondRunChangesNothing ==
    [][\A r \in Runs :
          (/\ run[r].pc = "commit" /\ run'[r].pc = "done"
           /\ ~ audit[r].overlapped
           /\ audit[r].returned = lastRun)
          => (listings' = listings /\ snapshots' = snapshots)]_vars

\* C6: when no stored Listing exists for the candidate's (source,
\* external_id), upsert_listing inserts exactly one Listing carrying the
\* candidate's fields, with price_per_m2 = price_rub / area_m2 when both are
\* present (truthy) and absent otherwise, and writes exactly one
\* PriceSnapshot with the new listing's price_rub and price_per_m2.
C6_InsertWhenAbsent ==
    [][\A r \in Runs :
          (UpsertStep(r) /\ Stored(r) = {})
          => LET p == Payload(r)
                 added == ViewOf(listings', sess'[r]) \ View(r)
             IN /\ audit'[r].outcome = "inserted"
                /\ View(r) \subseteq ViewOf(listings', sess'[r])
                /\ Cardinality(added) = 1
                /\ \A l \in added :
                      /\ \A f \in CandidateFields : l[f] = p[f]
                      /\ l.price_per_m2 =
                            IF Truthy(p.price_rub) /\ Truthy(p.area_m2)
                            THEN Quot(p.price_rub, p.area_m2) ELSE NoneRatio
                      /\ sess'[r].snaps = sess[r].snaps \o
                            <<[listing_id |-> l.id, price_rub |-> l.price_rub,
                               price_per_m2 |-> l.price_per_m2]>>
                /\ snapshots' = snapshots]_vars

\* C6 witness: area 40 and price 50000 against an empty store gave
\* price_per_m2 1250 and one snapshot.
C6_Witness ==
    \E r \in Runs :
        /\ audit[r].outcome = "inserted"
        /\ listings = {}
        /\ \E l \in sess[r].rows :
              /\ sess[r].rows = {l}
              /\ l.area_m2 = 40 /\ l.price_rub = 50000
              /\ l.price_per_m2 = <<1250, 1>>
              /\ sess[r].snaps = <<[listing_id |-> l.id, price_rub |-> 50000,
                                    price_per_m2 |-> <<1250, 1>>]>>

\* C7: when a stored Listing exists and the candidate's price_rub is present
\* and differs from the stored one, upsert_listing sets the stored price_rub
\* to the candidate's, sets price_per_m2 to the new price divided by the
\* candidate's area if present (truthy), else the stored area, else 1, and
\* appends exactly one PriceSnapshot with the new values; every earlier
\* snapshot keeps its values.
C7_UpdateOnPriceChange ==
    [][\A r \in Runs : \A obj \in View(r) :
          (/\ UpsertStep(r)
           /\ Stored(r) = {obj}
           /\ Truthy(Payload(r).price_rub)
           /\ Payload(r).price_rub # obj.price_rub)
          => LET p == Payload(r)
                 area == IF Truthy(p.area_m2) THEN p.area_m2
                         ELSE IF Truthy(obj.area_m2) THEN obj.area_m2 ELSE 1
             IN /\ audit'[r].outcome = "updated"
                /\ \E l \in ViewOf(listings', sess'[r]) :
                      /\ l.id = obj.id
                      /\ l.price_rub = p.price_rub
                      /\ l.price_per_m2 = Quot(p.price_rub, area)
                /\ sess'[r].snaps = sess[r].snaps \o
                      <<[listing_id |-> obj.id, price_rub |-> p.price_rub,
                         price_per_m2 |-> Quot(p.price_rub, area)]>>
                /\ snapshots' = snapshots]_vars

\* C7 witness: the 40 m2 listing went from 50000 to 55000 (price_per_m2 1375,
\* a second snapshot) and on to 60000 by a candidate without area (the stored
\* area: 1500), and a listing without any area was repriced (area taken as 1).
C7_Witness ==
    /\ \E l \in listings :
          /\ l.area_m2 = 40 /\ l.price_rub = 60000 /\ l.price_per_m2 = <<1500, 1>>
          /\ SnapshotsOf(snapshots, l.id)[1].price_per_m2 = <<1250, 1>>
          /\ SnapshotsOf(snapshots, l.id)[2] =
                [listing_id |-> l.id, price_rub |-> 55000, price_per_m2 |-> <<1375, 1>>]
    /\ \E l \in listings :
          /\ l.area_m2 = 0 /\ l.price_rub = 30000 /\ l.price_per_m2 = <<30000, 1>>

\* C8: upsert_listing leaves source, external_id, title, address, rooms,
\* area_m2, floor, floors_total, url and active of every stored Listing
\* unchanged, whatever the candidate carries; only price_rub and
\* price_per_m2 of the listing it matched may change.
C8_UpdateFrame ==
    [][\A r \in Runs :
          UpsertStep(r)
          => \A obj \in View(r) :
                \E l \in ViewOf(listings', sess'[r]) :
                   /\ l.id = obj.id
                   /\ \A f \in (CandidateFields \ {"price_rub"}) \cup {"active"} :
                         l[f] = obj[f]
                   /\ (obj \notin Stored(r) => l = obj)]_vars

\* C8 witness: a listing was repriced by a candidate whose title, address,
\* rooms, floor and url differ from the stored ones.
C8_Witness ==
    \E r \in Runs :
        /\ audit[r].outcome = "updated"
        /\ LET p == audit[r].upserted[Len(audit[r].upserted)]
           IN \E l \in Lookup(View(r), p) :
                 /\ l.price_rub = p.price_rub
                 /\ l.title # p.title /\ l.address # p.address /\ l.url # p.url
                 /\ l.rooms # p.rooms /\ l.floor # p.floor

\* The page loop of source s in run r ends on a FetchError in this step.
BreaksOnFetchError(r, s) ==
    /\ run[r].pc = "fetch" /\ run[r].src = s
    /\ audit[r].broke[s] = "" /\ audit'[r].broke[s] = "FetchError"

\* C9: a FetchError leaves _fetch_page only from the 4th attempt; the page
\* loop then stops without fetching any later page, the source returns the
\* candidates of the earlier pages alone, and the run goes on to the next
\* source (or to the reconciliation of what it has) instead of aborting.
C9_FetchErrorAfterFourAttempts ==
    [][\A r \in Runs : \A s \in Sources :
          /\ BreaksOnFetchError(r, s)
             => /\ run[r].attempt = 4
                /\ audit'[r].calls[s] = run[r].page
                /\ audit'[r].returned[s] = Normalize(cfg, s, run[r].out)
                /\ run'[r].pc \in {"upsert", "fetch", "commit"}
                /\ run'[r].pc = "fetch" => (run'[r].src # s /\ run'[r].page = 1)
                /\ (s = "cian" /\ cfg.AVITO_SEARCH_URL /\ audit'[r].returned[s] = <<>>)
                      => (run'[r].pc = "fetch" /\ run'[r].src = "avito")
          /\ (audit[r].broke[s] # "" /\ run'[r].pc # "idle")
             => audit'[r].calls[s] = audit[r].calls[s]]_vars

\* C9 witness: page 1 of CIAN failed with FetchError and the run stands at
\* the first GET of Avito, CIAN having contributed nothing.
C9_Witness ==
    \E r \in Runs :
        /\ audit[r].broke["cian"] = "FetchError"
        /\ audit[r].calls["cian"] = 1
        /\ audit[r].returned["cian"] = <<>>
        /\ run[r].pc = "fetch" /\ run[r].src = "avito"

\* C10: a fetch failure never ends the run: a run ends early only on an
\* exception of the store, and a run that reaches its commit has passed every
\* candidate its sources returned to upsert_listing, in order, and once
\* committed each of them has its row, whichever source's fetch failed.
C10_FetchFailureIsolated ==
    \A r \in Runs :
        /\ run[r].pc = "failed" => run[r].exc \in {"MultipleResultsFound", "TypeError"}
        /\ run[r].pc \in {"commit", "done"}
           => audit[r].upserted = audit[r].returned["cian"] \o audit[r].returned["avito"]
        /\ run[r].pc = "done"
           => \A i \in 1..Len(audit[r].upserted) :
                 Lookup(listings, audit[r].upserted[i]) # {}

\* C10 witness: CIAN's fetch failed, Avito's candidates were reconciled and
\* committed in the same run.
C10_Witness ==
    \E r \in Runs :
        /\ run[r].pc = "done"
        /\ audit[r].broke["cian"] # ""
        /\ audit[r].returned["avito"] # <<>>
        /\ \E l \in listings : l.source = "avito"

\* C11: a store failure is fatal to the run with no partial commit. Every
\* step of a run other than its successful commit leaves the committed
\* listings and snapshots as they were, a run whose upsert_listing or
\* commit raised never commits (it only closes, its pending inserts, updates
\* and snapshots discarded), and the run that starts afterwards starts from
\* page 1 of CIAN with an empty session.
C11_NoPartialCommit ==
    [][\A r \in Runs :
          /\ (run'[r] # run[r] /\ ~ (run[r].pc = "commit" /\ run'[r].pc = "done"))
                => (listings' = listings /\ snapshots' = snapshots)
          /\ (run[r].pc = "failed" /\ run'[r] # run[r])
                => (run'[r] = Idle /\ sess'[r] = NoSession)
          /\ (run[r].pc = "idle" /\ run'[r] # run[r])
                => (run'[r] = AtFetch("cian", 1, 1, <<>>) /\ sess'[r] = NoSession)]_vars

\* C11 witness: the commit of a run failed while the run held an inserted
\* row and its snapshot pending, and the tables hold none of them.
C11_Witness ==
    \E r \in Runs :
        /\ run[r].pc = "failed" /\ run[r].exc = "StoreError"
        /\ sess[r].snaps # <<>>
        /\ \E l \in sess[r].rows : l.id \notin Ids(listings)
        /\ snapshots = <<>>

\* The pair a candidate is deduplicated by.
PairOf(it) == <<Get(it, "external_id", NoneStr), Get(it, "url", NoneStr)>>

\* The candidates of a sequence that are the first with their pair, in order.
RECURSIVE FirstsFrom(_, _)
FirstsFrom(items, i) ==
    IF i > Len(items) THEN <<>>
    ELSE (IF \A j \in 1..(i - 1) : PairOf(items[j]) # PairOf(items[i])
          THEN <<items[i]>> ELSE <<>>) \o FirstsFrom(items, i + 1)

\* a is b with some elements left out.
RECURSIVE IsSubseq(_, _)
IsSubseq(a, b) ==
    IF a = <<>> THEN TRUE
    ELSE IF b = <<>> THEN FALSE
    ELSE IF Head(a) = Head(b) THEN IsSubseq(Tail(a), Tail(b))
    ELSE IsSubseq(a, Tail(b))

\* A normalizer taken alone has returned.
Normalized == call.fn = "normalize" /\ call.pc = "returned"

\* C12: for every input sequence the output of each source's normalizer has
\* no two elements with the same (external_id, url) pair, and it is made of
\* first occurrences only, in their input order.
C12_DedupFirstWins ==
    Normalized =>
        /\ \A i, j \in 1..Len(call.ret) :
              PairOf(call.ret[i]) = PairOf(call.ret[j]) => i = j
        /\ IsSubseq(call.ret, PopAll(FirstsFrom(call.items, 1)))

\* C12 witness: of two candidates with the pair ("1", url) the first, at
\* 50000, is returned and the second, at 45000, is not, with another
\* candidate returned after it.
C12_Witness ==
    /\ Normalized
    /\ Len(call.items) = 3 /\ Len(call.ret) = 2
    /\ PairOf(call.items[1]) = PairOf(call.items[2])
    /\ call.items[1].price_rub = 50000 /\ call.items[2].price_rub = 45000
    /\ call.ret[1] = PopTags(call.items[1])
    /\ call.ret[2] = PopTags(call.items[3])

\* The numeric filter as configured: the area present and at least the
\* minimum, and no maximum price set or the price present and at most it.
WithinLimits(s, it) ==
    /\ it.area_m2 # None /\ it.area_m2 >= s.cian_min_area_m2
    /\ (s.cian_max_price_rub = None
        \/ (it.price_rub # None /\ it.price_rub <= s.cian_max_price_rub))

\* C13: for every configuration, a maximum price of 0 included, every
\* candidate returned by fetch_cian or fetch_avito has area_m2 present and at
\* least the configured minimum, and either no maximum price is configured
\* or its price_rub is present and at most the configured maximum.
C13_NumericFilter ==
    Normalized => \A i \in 1..Len(call.ret) : WithinLimits(cfg, call.ret[i])

\* The stages of the returned normalizer that bear a name.
StagesNamed(name) == {k \in 1..Len(call.stages) : call.stages[k].stage = name}

\* A candidate of the input is among the returned ones.
ReturnedOf(it) == \E j \in 1..Len(call.ret) : call.ret[j] = PopTags(it)

\* C14: when rent_long_only is configured, no candidate tagged daily is
\* returned by a source's normalizer, whatever the other settings, the deal
\* type included, and the rental-period filter drops no candidate tagged
\* monthly or unknown.
C14_LongRentOnly ==
    (Normalized /\ cfg.cian_rent_long_only) =>
        /\ \A i \in 1..Len(call.items) :
              call.items[i]._rent_period = "daily" => ~ ReturnedOf(call.items[i])
        /\ \A k \in StagesNamed("rental") :
              SelectSeq(call.stages[k].after, NotDaily)
                  = SelectSeq(call.stages[k].before, NotDaily)

\* C15: when exclude_rooms is configured, no candidate that the extractor
\* tagged is_room = true is returned by fetch_cian or fetch_avito.
C15_RoomsExcluded ==
    (Normalized /\ cfg.cian_exclude_rooms) =>
        \A i \in 1..Len(call.items) :
            call.items[i]._is_room => ~ ReturnedOf(call.items[i])

\* An extractor taken alone has returned.
Extracted == call.fn = "extract" /\ call.pc = "returned"

\* The keyword rule: daily on any daily marker, else monthly on any monthly
\* marker, else unknown.
KeywordRule(text) ==
    IF \E w \in text : w \in DailyMarkers THEN "daily"
    ELSE IF \E w \in text : w \in MonthlyMarkers THEN "monthly"
    ELSE "unknown"

\* C16: the rental-period tag of every candidate, of CIAN cards and of Avito
\* JSON-LD offers alike, is the one the keyword rule gives over its text:
\* daily if a daily marker is present, a monthly one notwithstanding, else
\* monthly if a monthly marker is present, else unknown.
C16_RentalPeriodByKeywords ==
    Extracted =>
        \A i \in 1..Len(call.ret) :
            call.ret[i]._rent_period = KeywordRule(call.items[1].text)

Tags == {"_rent_period", "_is_room"}

\* The names of the stages a normalizer ran, the strip left out.
FilterOrder ==
    LET IsFilter(st) == st.stage # "strip"
        fs == SelectSeq(call.stages, IsFilter)
    IN [k \in 1..Len(fs) |-> fs[k].stage]

\* Every candidate handed to the named stage still carries the tag.
CarriesInto(name, tag) ==
    \A k \in StagesNamed(name) :
        \A i \in 1..Len(call.stages[k].before) : tag \in DOMAIN call.stages[k].before[i]

\* C17: no candidate returned by fetch_cian or fetch_avito carries
\* _rent_period or _is_room; the stages run in the order dedup,
\* rental-period, room-type, numeric; and the tags are removed only after the
\* filters that read them: the rental-period filter is handed candidates
\* that carry _rent_period and the room-type filter candidates that carry
\* _is_room.
C17_TagsStrippedAfterFilters ==
    Normalized =>
        /\ \A i \in 1..Len(call.ret) : DOMAIN call.ret[i] \cap Tags = {}
        /\ FilterOrder = <<"dedup", "rental", "rooms", "numeric">>
        /\ CarriesInto("rental", "_rent_period")
        /\ CarriesInto("rooms", "_is_room")

\* A page fetcher taken alone has ended an attempt.
Fetched == call.fn = "fetch" /\ call.pc = "returned"

\* The response body holds a marker of the source's list, as written there.
HoldsMarker == ~ call.resp.exc /\ call.resp.body \cap ANTI_BOT_MARKERS(call.source) # {}

\* C18: a fetch attempt whose response body contains any marker of the
\* source's ANTI_BOT_MARKERS fails with FetchError and is retried while
\* attempts remain; no such body is returned as page HTML.
C18_AntiBotBodyFails ==
    (Fetched /\ HoldsMarker) =>
        /\ call.ret.raises = "FetchError"
        /\ call.attempt < STOP_AFTER_ATTEMPT => call.decision = "retry"
        /\ call.decision # "return"

\* C19: a candidate whose external_id is absent never reaches
\* reconciliation: every payload passed to upsert_listing has a present
\* external_id.
C19_NoPayloadWithoutId ==
    \A r \in Runs : \A i \in 1..Len(audit[r].upserted) :
        Get(audit[r].upserted[i], "external_id", NoneStr) # NoneStr

\* The pages a loop taken alone has fetched so far, in order.
Fetches ==
    LET IsFetch(e) == e.op = "fetch" IN SelectSeq(call.events, IsFetch)

\* max(1, max_pages) of the source of the loop taken alone.
PageLimit ==
    LET n == IF call.source = "cian" THEN cfg.cian_max_pages ELSE cfg.AVITO_MAX_PAGES
    IN IF n >= 1 THEN n ELSE 1

\* C20: a source's page loop fetches at most max(1, max_pages) pages, in the
\* order 1, 2, ...; a page that gave fewer than 5 candidates or whose fetch
\* failed is the last one fetched; and a rate-limit sleep stands between
\* every two consecutive page fetches.
C20_PageLoopBounded ==
    call.fn = "loop" =>
        /\ Len(Fetches) + (IF call.pc = "fetch" THEN 1 ELSE 0) <= PageLimit
        /\ \A i \in 1..Len(Fetches) : Fetches[i].page = i
        /\ call.pc = "fetch" => call.page = Len(Fetches) + 1
        /\ \A i \in 1..Len(Fetches) :
              (Fetches[i].got = None \/ Fetches[i].got < MIN_CARDS)
                  => (i = Len(Fetches) /\ call.pc = "returned")
        /\ \A k \in 1..Len(call.events) :
              call.events[k].op = "fetch" =>
                  /\ k < Len(call.events) => call.events[k + 1].op = "sleep"
                  /\ ~ (k = Len(call.events) /\ call.pc = "fetch")

\* C20 witness: with three pages configured the loop fetched page 1 (five
\* cards), slept, fetched page 2 whose fetch failed, and returned without
\* fetching page 3.
C20_Witness ==
    /\ call.fn = "loop" /\ call.pc = "returned"
    /\ PageLimit = 3
    /\ call.events = <<Fetch(1, 5), Sleep, Fetch(2, None)>>

\* The prioritized rule: false on an apartment or studio keyword, else true
\* on the room word standing alone or on an explicit phrase, else false.
RoomRule(t) ==
    IF \E w \in t : w \in {"kvartira", "studiya"} THEN FALSE
    ELSE IF \E w \in t : w \in StandaloneRoom \cup {"komnata v", "komn. v", "v podseleni"}
    THEN TRUE
    ELSE FALSE

\* C21: _is_room_listing is the prioritized rule, for every text: false on
\* an apartment or studio keyword, else true on a standalone room word or an
\* explicit room phrase, else false; hence both sources' implementations
\* give the same tag to the same text.
C21_RoomRuleBothSources ==
    Extracted =>
        \A i \in 1..Len(call.ret) :
            /\ call.ret[i]._is_room = RoomRule(call.items[1].summary)
            /\ _is_room_listing_cian(call.items[1].summary)
                  = _is_room_listing_avito(call.items[1].summary)

\* The source other than the one the normalizer taken alone belongs to.
OtherSource == IF call.source = "cian" THEN "avito" ELSE "cian"

\* C22: for every tagged candidate sequence and every configuration the
\* tail of fetch_avito and the tail of fetch_cian keep exactly the same
\* candidates in the same order.
C22_SameNormalizer ==
    Normalized => call.ret = Normalize(cfg, OtherSource, call.items)

\* C23: within one run no upsert_listing call happens before the last page
\* fetch of the last configured source has completed: a run that is
\* fetching a page has made no upsert yet.
C23_ReconcileAfterAllFetched ==
    \A r \in Runs : run[r].pc = "fetch" => audit[r].upserted = <<>>

\* Every row has a snapshot, and its price_rub and price_per_m2 are those
\* of the last snapshot written for it.
PriceHeld(rows, snaps) ==
    \A l \in rows :
        LET sn == SnapshotsOf(snaps, l.id)
        IN /\ Len(sn) >= 1
           /\ sn[Len(sn)].price_rub = l.price_rub
           /\ sn[Len(sn)].price_per_m2 = l.price_per_m2

\* C24: after every step, each upsert_listing call included, every stored
\* Listing, committed or as the run's session sees it, has at least one
\* snapshot and holds the price_rub and price_per_m2 of its most recently
\* written snapshot; and an upsert_listing call whose candidate has no
\* price_rub, or price_rub 0, leaves every stored row as it was and, when
\* the listing is stored already, adds no snapshot.
C24_PriceIsLastSnapshot ==
    [][/\ PriceHeld(listings', snapshots')
       /\ \A r \in Runs :
             /\ PriceHeld(ViewOf(listings', sess'[r]), snapshots' \o sess'[r].snaps)
             /\ (UpsertStep(r) /\ ~ Truthy(Get(Payload(r), "price_rub", None)))
                   => /\ \A l \in View(r) : l \in ViewOf(listings', sess'[r])
                      /\ Stored(r) # {} => sess'[r].snaps = sess[r].snaps]_vars

\* C24 witness: the listing inserted at 50000 met a candidate at 48000 and
\* then one with price_rub 0: it holds 48000, its two snapshots are 50000
\* and 48000, and the last call came out unchanged.
C24_Witness ==
    \E r \in Runs :
        /\ audit[r].outcome = "unchanged"
        /\ Len(audit[r].upserted) = 3
        /\ audit[r].upserted[3].price_rub = 0
        /\ \E l \in View(r) :
              /\ l.external_id = "1" /\ l.price_rub = 48000
              /\ l.price_per_m2 = <<1200, 1>>
              /\ PricesOf(SnapshotsOf(snapshots \o sess[r].snaps, l.id)) = <<50000, 48000>>

\* n full pages of the source of the loop taken alone, one after the other.
RECURSIVE FullPages(_)
FullPages(n) == IF n = 0 THEN <<>> ELSE FullPage(call.source) \o FullPages(n - 1)

\* C25 as stated: whenever the fetch of a page ends in an exception other
\* than FetchError, _fetch_page has made exactly one attempt at that page.
C25_ExactlyOneAttempt ==
    (call.fn = "loop" /\ call.tries # <<>> /\ call.tries[Len(call.tries)] = "Exception")
        => Len(call.tries) = 1

\* C25, amended: only FetchError is retried: every attempt at a page that is
\* followed by another attempt raised FetchError. An attempt that raises
\* another exception is the last one at its page (the only one when it is
\* the first); the page loop catches the exception and returns, no later
\* page is fetched, and the candidates of the earlier pages are kept.
C25_OnlyFetchErrorRetried ==
    call.fn = "loop" =>
        /\ \A i \in 1..(Len(call.tries) - 1) : call.tries[i] = "FetchError"
        /\ (call.tries # <<>> /\ call.tries[Len(call.tries)] = "Exception") =>
              /\ call.pc = "returned"
              /\ call.events[Len(call.events)] = Fetch(call.page, None)
              /\ Len(Fetches) = call.page
              /\ call.out = FullPages(call.page - 1)

\* C25 witness: page 1 gave five cards; the first attempt at page 2 raised
\* an exception of the HTTP client and the loop returned the five cards
\* after that single attempt, page 3 of the 3 configured left unfetched.
C25_Witness ==
    /\ call.fn = "loop" /\ call.pc = "returned"
    /\ PageLimit = 3 /\ call.page = 2
    /\ call.tries = <<"Exception">>
    /\ Len(call.out) = 5
====
